---------------------------- MODULE Spec2Model ----------------------------
(***************************************************************************)
(* Insight orchestration engine of RupAI (python-agents).                  *)
(*                                                                         *)
(* The model covers AgentOrchestrator (analyze_document,                   *)
(* refresh_user_analysis, handle_user_query), the three analyzers it fans  *)
(* out to, and the agent_insights / financial_documents tables behind      *)
(* SupabaseClient.                                                         *)
(*                                                                         *)
(* Fault model: a text-generation call, a data-store read and an insight   *)
(* insert may each fail.  The writes done by update_document_status and    *)
(* deactivate_old_insights are taken to succeed.                           *)
(*                                                                         *)
(* Steps: the methods of SupabaseClient are coroutines without an await   *)
(* of their own, so a request gives up control only at asyncio.gather and  *)
(* at a text-generation call.  What runs between two such points is one    *)
(* action; a gather that raised resumes its request in a later step.       *)
(*                                                                         *)
(* Arithmetic: amounts are integers below 2^31.  A float quotient is kept  *)
(* as the exact fraction it approximates, and a comparison of it with a    *)
(* threshold is done by cross-multiplication (a / b * 100 > k  iff         *)
(* a * 100 > k * b for b > 0).  Two different fractions of such amounts    *)
(* lie much further apart than a double's rounding error, so the double    *)
(* comparison and the exact one agree unless the fraction EQUALS the       *)
(* threshold; for those inputs the outcome of the double arithmetic is     *)
(* tabulated (ExpenseRatioRoundsDown, SavingsRateRoundsDown).              *)
(***************************************************************************)
EXTENDS Integers, Sequences, FiniteSets, TLC

\* ------------------------------------------------------------------------
\* Bounds of the model
\* ------------------------------------------------------------------------

\* number of RunFullAnalysis / RefreshUserAnalysis runs started in one behaviour
MaxRuns == 2

\* the requests that may be in flight at the same time
Procs == {"p1", "p2"}

Users == {"u1", "u2"}

\* ------------------------------------------------------------------------
\* Financial records (rows of table financial_data)
\* ------------------------------------------------------------------------

Rec(t, c, a, r) == [data_type |-> t, category |-> c, amount |-> a, interest_rate |-> r]

\* no records at all: every total is 0
ProfEmpty == << >>

\* debt at 50% of income, 40% savings rate, savings above the emergency target
ProfDebt ==
  << Rec("income", "Salary", 60000, 0),
     Rec("debt", "Credit Card", 30000, 20),
     Rec("expense", "Other", 36000, 0),
     Rec("savings", "Bank", 20000, 0) >>

\* expenses at exactly 85% of income, no savings, no debt
ProfTight ==
  << Rec("income", "Salary", 120000, 0),
     Rec("expense", "Housing", 102000, 0) >>

\* three small debts, 90% savings rate
ProfSaver ==
  << Rec("income", "Salary", 120000, 0),
     Rec("expense", "Food", 12000, 0),
     Rec("savings", "Bank", 60000, 0),
     Rec("debt", "Card", 3000, 18),
     Rec("debt", "Auto", 3000, 6),
     Rec("debt", "Student", 3000, 4) >>

Profiles == {ProfEmpty, ProfDebt, ProfTight, ProfSaver}

\* the contents of table financial_data the model starts from
FinancialData ==
  {[u \in Users |-> IF u = "u1" THEN ProfDebt ELSE ProfTight],
   [u \in Users |-> IF u = "u1" THEN ProfSaver ELSE ProfEmpty]}

\* ------------------------------------------------------------------------
\* Helpers shared by the analyzers
\* ------------------------------------------------------------------------

\* [item for item in financial_data if item.get("data_type") == t]
OfType(data, t) == SelectSeq(data, LAMBDA r : r.data_type = t)

RECURSIVE SumAmount(_)
\* sum(item.get("amount", 0) for item in recs)
SumAmount(recs) ==
  IF recs = << >> THEN 0 ELSE Head(recs).amount + SumAmount(Tail(recs))

\* expense_categories.get(c, 0)
CategoryTotal(data, c) ==
  SumAmount(SelectSeq(OfType(data, "expense"), LAMBDA r : r.category = c))

Max(a, b) == IF a >= b THEN a ELSE b

\* the float n / d, kept as a fraction
Ratio(n, d) == [num |-> n, den |-> d]

\* the float 0
Zero == Ratio(0, 1)

\* what n / d gives when d is 0: Python raises ZeroDivisionError
ZeroDivision == Ratio(0, 0)

\* n / d
Divide(n, d) == IF d = 0 THEN ZeroDivision ELSE Ratio(n, d)

IsZero(r) == r.den # 0 /\ r.num = 0

\* Among the totals the model draws, the pairs (total_expenses, total_income)
\* with total_expenses / total_income equal to 1.0, 0.95, 0.85 or 0.70 for
\* which the double (total_expenses / 12) / (total_income / 12) is below that
\* threshold: 85000 / 12 = 7083.333..., 100000 / 12 = 8333.333... and their
\* quotient is 0.8499999999999999.  (102000 / 12 = 8500 and 120000 / 12 =
\* 10000 are exact and 8500 / 10000 is the double 0.85; 95000 with 100000
\* gives 0.95 and 70000 with 100000 gives 0.7.)
ExpenseRatioRoundsDown == {<< 85000, 100000 >>}

\* Among the totals the model draws, the pairs (total_expenses, total_income)
\* with a savings rate of exactly 10 or 20 percent for which the double
\* (total_income / 12 - total_expenses / 12) / (total_income / 12) * 100 is
\* below 10.0 or 20.0: 9.999999999999995 for (63000, 70000) and
\* 19.99999999999999 for (56000, 70000).  ((90000, 100000) gives
\* 10.000000000000005 and (80000, 100000) gives 20.0.)
SavingsRateRoundsDown == {<< 63000, 70000 >>, << 56000, 70000 >>}

\* ------------------------------------------------------------------------
\* DebtAnalyzerAgent
\* ------------------------------------------------------------------------

DebtRecommendations(debts) ==
  IF debts = << >> THEN << >>
  ELSE << "debt_prioritization" >>
       \o (IF Len(debts) > 2 THEN << "consolidation" >> ELSE << >>)

\* debt_to_income without the test of total_income
DebtToIncomeUnguarded(total_debt, total_income) ==
  Divide(total_debt * 100, total_income)

\* debt_to_income = total_debt / total_income * 100 if total_income > 0 else 0
DebtToIncome(total_debt, total_income) ==
  IF total_income > 0 THEN Divide(total_debt * 100, total_income) ELSE Zero

\* the ladder with its thresholds taken inclusively
CalculateDebtPriorityInclusive(total_debt, total_income) ==
  IF total_income > 0 /\ total_debt * 100 >= 40 * total_income THEN 10
  ELSE IF total_income > 0 /\ total_debt * 100 >= 30 * total_income THEN 8
  ELSE IF total_income > 0 /\ total_debt * 100 >= 20 * total_income THEN 6
  ELSE IF total_debt > 0 THEN 4
  ELSE 1

\* a ladder that takes a debt without income for the worst ratio
CalculateDebtPriorityNoIncome(total_debt, total_income) ==
  IF total_income <= 0 /\ total_debt > 0 THEN 10
  ELSE IF total_income > 0 /\ total_debt * 100 > 40 * total_income THEN 10
  ELSE IF total_income > 0 /\ total_debt * 100 > 30 * total_income THEN 8
  ELSE IF total_income > 0 /\ total_debt * 100 > 20 * total_income THEN 6
  ELSE IF total_debt > 0 THEN 4
  ELSE 1

\* the ladder on debt_to_income; no double total_debt / total_income * 100 of
\* the amounts the model draws is above a threshold its fraction equals
CalculateDebtPriority(total_debt, total_income) ==
  IF total_income > 0 /\ total_debt * 100 > 40 * total_income THEN 10
  ELSE IF total_income > 0 /\ total_debt * 100 > 30 * total_income THEN 8
  ELSE IF total_income > 0 /\ total_debt * 100 > 20 * total_income THEN 6
  ELSE IF total_debt > 0 THEN 4
  ELSE 1

DebtAnalyze(data) ==
  LET debts == OfType(data, "debt")
      total_debt == SumAmount(debts)
      total_income == SumAmount(OfType(data, "income"))
  IN  [agent_type |-> "debt_analyzer",
       analysis |-> "narrative",
       recommendations |-> DebtRecommendations(debts),
       metrics |-> [total_debt |-> total_debt,
                    debt_to_income_ratio |->
                      DebtToIncome(total_debt, total_income),
                    debt_count |-> Len(debts)],
       priority_score |-> CalculateDebtPriority(total_debt, total_income)]

\* ------------------------------------------------------------------------
\* SavingsStrategyAgent
\* ------------------------------------------------------------------------

\* emergency_fund_gap = max(0, monthly_expenses * 6 - total_savings), doubled:
\* monthly_expenses * 6 = total_expenses / 2
EmergencyFundGap2(total_expenses, total_savings) ==
  Max(0, total_expenses - 2 * total_savings)

\* savings_rate < k, with savings_rate =
\* (monthly_surplus / monthly_income * 100) if monthly_income > 0 else 0
SavingsRateBelow(total_income, total_expenses, k) ==
  IF total_income > 0
  THEN \/ (total_income - total_expenses) * 100 < k * total_income
       \/ /\ (total_income - total_expenses) * 100 = k * total_income
          /\ << total_expenses, total_income >> \in SavingsRateRoundsDown
  ELSE 0 < k

\* savings_rate = (monthly_surplus / monthly_income * 100)
\*                  if monthly_income > 0 else 0
SavingsRate(total_income, total_expenses) ==
  IF total_income > 0
  THEN Divide((total_income - total_expenses) * 100, total_income)
  ELSE Zero

\* emergency_fund_progress = (total_savings / emergency_fund_target * 100)
\*   if emergency_fund_target > 0 else 0, with emergency_fund_target =
\*   monthly_expenses * 6 = total_expenses / 2
EmergencyFundProgress(total_savings, total_expenses) ==
  IF total_expenses > 0
  THEN Divide(total_savings * 200, total_expenses)
  ELSE Zero

SavingsRecommendations(total_savings, total_income, total_expenses) ==
  (IF EmergencyFundGap2(total_expenses, total_savings) > 0
     THEN << "emergency_fund" >> ELSE << >>)
  \o (IF SavingsRateBelow(total_income, total_expenses, 20)
        THEN << "savings_rate" >> ELSE << >>)
  \o (IF total_savings > 10000 THEN << "investment" >> ELSE << >>)
  \o << "account_optimization" >>

CalculateSavingsPriority(total_savings, total_income, total_expenses) ==
  IF EmergencyFundGap2(total_expenses, total_savings) > 2 * 10000 THEN 9
  ELSE IF SavingsRateBelow(total_income, total_expenses, 10) THEN 7
  ELSE IF SavingsRateBelow(total_income, total_expenses, 20) THEN 5
  ELSE 3

SavingsAnalyze(data) ==
  LET total_savings == SumAmount(OfType(data, "savings"))
      total_income == SumAmount(OfType(data, "income"))
      total_expenses == SumAmount(OfType(data, "expense"))
  IN  [agent_type |-> "savings_strategy",
       analysis |-> "narrative",
       recommendations |->
         SavingsRecommendations(total_savings, total_income, total_expenses),
       metrics |-> [total_savings |-> total_savings,
                    savings_rate |-> SavingsRate(total_income, total_expenses),
                    emergency_fund_progress |->
                      EmergencyFundProgress(total_savings, total_expenses),
                    monthly_surplus |->
                      Divide(total_income - total_expenses, 12)],
       priority_score |->
         CalculateSavingsPriority(total_savings, total_income, total_expenses)]

\* ------------------------------------------------------------------------
\* BudgetOptimizerAgent
\* ------------------------------------------------------------------------

BudgetRecommendations(data, total_income, total_expenses) ==
  LET housing == CategoryTotal(data, "Housing") + CategoryTotal(data, "Rent")
                   + CategoryTotal(data, "Mortgage")
      transportation == CategoryTotal(data, "Transportation")
                   + CategoryTotal(data, "Car") + CategoryTotal(data, "Gas")
      entertainment == CategoryTotal(data, "Entertainment")
                   + CategoryTotal(data, "Subscriptions")
      food == CategoryTotal(data, "Food") + CategoryTotal(data, "Dining")
                   + CategoryTotal(data, "Groceries")
  IN  (IF total_income > 0 /\ housing * 100 > 30 * total_income
         THEN << "housing_optimization" >> ELSE << >>)
      \o (IF transportation * 100 > 15 * total_income
            THEN << "transportation" >> ELSE << >>)
      \o (IF entertainment > 0 THEN << "subscription_audit" >> ELSE << >>)
      \o (IF food * 100 > 12 * total_income
            THEN << "food_optimization" >> ELSE << >>)
      \o (IF total_expenses * 100 >= 95 * total_income
            THEN << "emergency_buffer" >> ELSE << >>)

\* expense_ratio >= k / 100 in _calculate_budget_priority, for total_income > 0
ExpenseRatioAtLeast(total_income, total_expenses, k) ==
  \/ total_expenses * 100 > k * total_income
  \/ /\ total_expenses * 100 = k * total_income
     /\ << total_expenses, total_income >> \notin ExpenseRatioRoundsDown

\* expense_ratio = (monthly_expenses / monthly_income) if monthly_income > 0 else 1
CalculateBudgetPriority(total_income, total_expenses) ==
  IF total_income <= 0 THEN 10
  ELSE IF ExpenseRatioAtLeast(total_income, total_expenses, 100) THEN 10
  ELSE IF ExpenseRatioAtLeast(total_income, total_expenses, 95) THEN 8
  ELSE IF ExpenseRatioAtLeast(total_income, total_expenses, 85) THEN 6
  ELSE IF ExpenseRatioAtLeast(total_income, total_expenses, 70) THEN 4
  ELSE 2

\* the categories of expense_categories
ExpenseCategories(data) ==
  {OfType(data, "expense")[i].category : i \in 1..Len(OfType(data, "expense"))}

\* expense_percentages = {category: (amount / total_income * 100)
\*                          if total_income > 0 else 0}
ExpensePercentages(data) ==
  LET total_income == SumAmount(OfType(data, "income"))
  IN  [c \in ExpenseCategories(data) |->
         IF total_income > 0
         THEN Divide(CategoryTotal(data, c) * 100, total_income)
         ELSE Zero]

\* "expense_ratio": (monthly_expenses / monthly_income * 100)
\*                    if monthly_income > 0 else 0
ExpenseRatio(total_income, total_expenses) ==
  IF total_income > 0 THEN Divide(total_expenses * 100, total_income) ELSE Zero

\* sorted(expense_categories.items(), key=lambda x: x[1], reverse=True)[0][0]:
\* the category with the largest total, the one met first among equals
LargestExpenseCategory(data) ==
  LET expenses == OfType(data, "expense")
      total(i) == CategoryTotal(data, expenses[i].category)
      top == CHOOSE i \in 1..Len(expenses) :
               /\ \A j \in 1..Len(expenses) : total(j) <= total(i)
               /\ \A j \in 1..(i - 1) : total(j) < total(i)
  IN  IF expenses = << >> THEN "None" ELSE expenses[top].category

BudgetAnalyze(data) ==
  LET total_income == SumAmount(OfType(data, "income"))
      total_expenses == SumAmount(OfType(data, "expense"))
  IN  [agent_type |-> "budget_optimizer",
       analysis |-> "narrative",
       recommendations |->
         BudgetRecommendations(data, total_income, total_expenses),
       metrics |-> [monthly_income |-> Divide(total_income, 12),
                    monthly_expenses |-> Divide(total_expenses, 12),
                    expense_ratio |->
                      ExpenseRatio(total_income, total_expenses),
                    largest_expense_category |->
                      LargestExpenseCategory(data)],
       priority_score |-> CalculateBudgetPriority(total_income, total_expenses)]

\* generate_response: response.content, the text the text-generation call of
\* agent a gives for query, named by the agent that asked and what it asked
GenerateResponse(a, query) == [content_for |-> query, asked_by |-> a]

\* the three analyzers in the order the orchestrator gathers and stores them
AgentOrder == << "debt_analyzer", "savings_strategy", "budget_optimizer" >>

AgentTypes == {AgentOrder[i] : i \in 1..3}

\* the result agent a gives on financial records data
Analyze(a, data) ==
  CASE a = "debt_analyzer" -> DebtAnalyze(data)
    [] a = "savings_strategy" -> SavingsAnalyze(data)
    [] a = "budget_optimizer" -> BudgetAnalyze(data)

\* ------------------------------------------------------------------------
\* SupabaseClient: tables and calls
\* ------------------------------------------------------------------------

\* rows of financial_documents: id -> user_id ("d5" has no row)
DocumentOwner == [d \in {"d1", "d2", "d3", "d4"} |->
                    IF d = "d2" THEN "u2" ELSE "u1"]

DocIds == DOMAIN DocumentOwner \cup {"d5"}

\* get_document_chunks: "d3" and "d5" have no chunks; the chunks of "d4" carry
\* a user_id that is not the owner of the document
GetDocumentChunks(d) ==
  CASE d = "d1" -> << [document_id |-> "d1", user_id |-> "u1"] >>
    [] d = "d2" -> << [document_id |-> "d2", user_id |-> "u2"] >>
    [] d = "d4" -> << [document_id |-> "d4", user_id |-> "u2"] >>
    [] OTHER -> << >>

\* get_user_documents: the document rows of one user
GetUserDocuments(u) ==
  {[id |-> d, user_id |-> DocumentOwner[d]] :
     d \in {x \in DOMAIN DocumentOwner : DocumentOwner[x] = u}}

\* store_agent_insight: one row appended to agent_insights; is_active takes the
\* column default, g is the run that inserts the row
StoreAgentInsight(tbl, row, g) ==
  Append(tbl, [user_id |-> row.user_id,
               agent_type |-> row.agent_type,
               insight_type |-> row.insight_type,
               recommendations |-> row.recommendations,
               priority_score |-> row.priority_score,
               is_active |-> TRUE,
               gen |-> g])

\* a deactivation that spares the recommendation rows
DeactivateAnalysisRowsOnly(tbl, u, a) ==
  [i \in DOMAIN tbl |->
     IF tbl[i].user_id = u /\ tbl[i].agent_type = a /\ tbl[i].insight_type = "analysis"
     THEN [tbl[i] EXCEPT !.is_active = FALSE]
     ELSE tbl[i]]

\* a deactivation that deletes the rows instead of updating them
DeleteOldInsights(tbl, u, a) ==
  SelectSeq(tbl, LAMBDA r : ~ (r.user_id = u /\ r.agent_type = a))

\* deactivate_old_insights
DeactivateOldInsights(tbl, u, a) ==
  [i \in DOMAIN tbl |->
     IF tbl[i].user_id = u /\ tbl[i].agent_type = a
     THEN [tbl[i] EXCEPT !.is_active = FALSE]
     ELSE tbl[i]]

\* get_user_insights(user_id): the active rows of a user
GetUserInsights(tbl, u) ==
  SelectSeq(tbl, LAMBDA r : r.user_id = u /\ r.is_active)

\* a status update that drops the metadata
UpdateStatusWithoutMetadata(tbl, d, status, e) ==
  [x \in DOMAIN tbl |->
     IF x = d THEN [tbl[x] EXCEPT !.upload_status = status] ELSE tbl[x]]

\* update_document_status(document_id, status, metadata); metadata is {"error": e}
UpdateDocumentStatus(tbl, d, status, e) ==
  [x \in DOMAIN tbl |->
     IF x = d THEN [upload_status |-> status, error |-> e] ELSE tbl[x]]

\* ------------------------------------------------------------------------
\* AgentOrchestrator: pure parts
\* ------------------------------------------------------------------------

NoUser == "none"

\* the user taken from the first chunk, without the look-up of the document
ResolveUserFromChunk(d, chunks) == chunks[1].user_id

\* analyze_document, lines 26-31: the owner of document d among the documents
\* of the user named by the first chunk
ResolveUser(d, chunks) ==
  LET documents == GetUserDocuments(chunks[1].user_id)
      found == {doc \in documents : doc.id = d}
  IN  IF found = {} THEN NoUser ELSE (CHOOSE doc \in found : TRUE).user_id

\* a boost that forgets the debt_prioritization tag
RecommendationPriorityOneTag(rec_type) ==
  IF rec_type = "emergency_fund" THEN 8 ELSE 5

\* priority_score of a recommendation insight
RecommendationPriority(rec_type) ==
  IF rec_type \in {"emergency_fund", "debt_prioritization"} THEN 8 ELSE 5

\* a loop that stores the recommendations and no analysis row
RecommendationRowsOnly(user_id, analysis) ==
  [i \in 1..Len(analysis.recommendations) |->
     [user_id |-> user_id,
      agent_type |-> analysis.agent_type,
      insight_type |-> "recommendation",
      recommendations |-> << analysis.recommendations[i] >>,
      priority_score |-> 5]]

\* a loop that stores the recommendations first and the analysis row last
RecommendationRowsFirst(user_id, analysis) ==
  [i \in 1..Len(analysis.recommendations) |->
     [user_id |-> user_id,
      agent_type |-> analysis.agent_type,
      insight_type |-> "recommendation",
      recommendations |-> << analysis.recommendations[i] >>,
      priority_score |-> RecommendationPriority(analysis.recommendations[i])]]
  \o << [user_id |-> user_id,
         agent_type |-> analysis.agent_type,
         insight_type |-> "analysis",
         recommendations |-> analysis.recommendations,
         priority_score |-> analysis.priority_score] >>

\* _store_agent_insights, one analysis: the rows in the order of the inserts
AnalysisRows(user_id, analysis) ==
  << [user_id |-> user_id,
      agent_type |-> analysis.agent_type,
      insight_type |-> "analysis",
      recommendations |-> analysis.recommendations,
      priority_score |-> analysis.priority_score] >>
  \o [i \in 1..Len(analysis.recommendations) |->
        [user_id |-> user_id,
         agent_type |-> analysis.agent_type,
         insight_type |-> "recommendation",
         recommendations |-> << analysis.recommendations[i] >>,
         priority_score |-> RecommendationPriority(analysis.recommendations[i])]]

\* _store_agent_insights: the rows of all analyses
InsightRows(user_id, analyses) ==
  AnalysisRows(user_id, analyses[1]) \o AnalysisRows(user_id, analyses[2])
    \o AnalysisRows(user_id, analyses[3])

\* the results gather returns, in the order of its arguments
GatherAnalyses(data) == [i \in 1..3 |-> Analyze(AgentOrder[i], data)]

\* a summary with the segment of every analyzer, whatever the debt
GenerateSummaryAllSegments(debt_analysis, savings_analysis, budget_analysis) ==
  << "Debt Analysis", "Savings Analysis", "Budget Analysis" >>

\* _generate_summary: the segments joined by " | "
GenerateSummary(debt_analysis, savings_analysis, budget_analysis) ==
  (IF debt_analysis.metrics.total_debt > 0 THEN << "Debt Analysis" >> ELSE << >>)
  \o << "Savings Analysis", "Budget Analysis" >>

\* ------------------------------------------------------------------------
\* Router: messages are sequences of characters
\* ------------------------------------------------------------------------

UpperCase == << "A", "B", "C", "D", "E", "F", "G", "H", "I", "J", "K", "L", "M", "N", "O", "P", "Q", "R", "S", "T", "U", "V", "W", "X", "Y", "Z" >>

LowerCase == << "a", "b", "c", "d", "e", "f", "g", "h", "i", "j", "k", "l", "m", "n", "o", "p", "q", "r", "s", "t", "u", "v", "w", "x", "y", "z" >>

\* str.lower() on one character
LowerChar(c) ==
  IF \E i \in 1..Len(UpperCase) : UpperCase[i] = c
  THEN LowerCase[CHOOSE i \in 1..Len(UpperCase) : UpperCase[i] = c]
  ELSE c

\* message.lower()
Lower(message) == [i \in 1..Len(message) |-> LowerChar(message[i])]

\* keyword in query_lower
Contains(text, keyword) ==
  \E i \in 0..(Len(text) - Len(keyword)) :
     SubSeq(text, i + 1, i + Len(keyword)) = keyword

\* any(keyword in query_lower for keyword in keywords)
AnyKeyword(text, keywords) ==
  \E k \in 1..Len(keywords) : Contains(text, keywords[k])

\* ["debt", "loan", "credit", "payoff", "interest"]
DebtKeywords ==
  << << "d", "e", "b", "t" >>,
     << "l", "o", "a", "n" >>,
     << "c", "r", "e", "d", "i", "t" >>,
     << "p", "a", "y", "o", "f", "f" >>,
     << "i", "n", "t", "e", "r", "e", "s", "t" >> >>

\* ["save", "saving", "investment", "retire", "emergency fund"]
SavingsKeywords ==
  << << "s", "a", "v", "e" >>,
     << "s", "a", "v", "i", "n", "g" >>,
     << "i", "n", "v", "e", "s", "t", "m", "e", "n", "t" >>,
     << "r", "e", "t", "i", "r", "e" >>,
     << "e", "m", "e", "r", "g", "e", "n", "c", "y", " ", "f", "u", "n", "d" >> >>

\* ["budget", "expense", "spending", "cost", "subscription"]
BudgetKeywords ==
  << << "b", "u", "d", "g", "e", "t" >>,
     << "e", "x", "p", "e", "n", "s", "e" >>,
     << "s", "p", "e", "n", "d", "i", "n", "g" >>,
     << "c", "o", "s", "t" >>,
     << "s", "u", "b", "s", "c", "r", "i", "p", "t", "i", "o", "n" >> >>

\* "pay off my loan and save more"
MsgLoanSave ==
  << "p", "a", "y", " ", "o", "f", "f", " ", "m", "y", " ", "l", "o", "a", "n", " ", "a", "n", "d", " ", "s", "a", "v", "e", " ", "m", "o", "r", "e" >>

\* "Save on cost"
MsgSaveCost ==
  << "S", "a", "v", "e", " ", "o", "n", " ", "c", "o", "s", "t" >>

\* "BUDGET"
MsgBudget ==
  << "B", "U", "D", "G", "E", "T" >>

\* "hello"
MsgHello ==
  << "h", "e", "l", "l", "o" >>

\* "Interesting"
MsgInteresting ==
  << "I", "n", "t", "e", "r", "e", "s", "t", "i", "n", "g" >>

\* "emergency"
MsgEmergency ==
  << "e", "m", "e", "r", "g", "e", "n", "c", "y" >>

\* "Credit budget"
MsgCreditBudget ==
  << "C", "r", "e", "d", "i", "t", " ", "b", "u", "d", "g", "e", "t" >>

\* ""
MsgEmpty ==
  << >>

Messages ==
  {MsgLoanSave,
   MsgSaveCost,
   MsgBudget,
   MsgHello,
   MsgInteresting,
   MsgEmergency,
   MsgCreditBudget,
   MsgEmpty}

\* dict.get(key, default) on a record
DictGet(d, key, default) == IF key \in DOMAIN d THEN d[key] ELSE default

\* results of get_financial_summary: {} and summaries with a total_debt
Summaries ==
  << << >>, [total_debt |-> 0], [total_debt |-> 10000],
     [total_debt |-> 10001], [total_debt |-> 15000] >>

\* a fallback that looks at the savings rate before the debt
HandleGeneralQuerySavingsFirst(context) ==
  LET financial_summary == DictGet(context, "financial_summary", << >>)
      total_debt == DictGet(financial_summary, "total_debt", 0)
      savings_rate == DictGet(context, "savings_rate", 0)
  IN  IF savings_rate < 15 THEN "savings_strategy"
      ELSE IF total_debt > 10000 THEN "debt_analyzer"
      ELSE "budget_optimizer"

\* _handle_general_query: the agent chosen from the context
HandleGeneralQuery(context) ==
  LET financial_summary == DictGet(context, "financial_summary", << >>)
      total_debt == DictGet(financial_summary, "total_debt", 0)
      savings_rate == DictGet(context, "savings_rate", 0)
  IN  IF total_debt > 10000 THEN "debt_analyzer"
      ELSE IF savings_rate < 15 THEN "savings_strategy"
      ELSE "budget_optimizer"

\* a router that checks the savings keywords first
RouteQuerySavingsFirst(message, context) ==
  LET query_lower == Lower(message)
  IN  IF AnyKeyword(query_lower, SavingsKeywords) THEN "savings_strategy"
      ELSE IF AnyKeyword(query_lower, DebtKeywords) THEN "debt_analyzer"
      ELSE IF AnyKeyword(query_lower, BudgetKeywords) THEN "budget_optimizer"
      ELSE HandleGeneralQuery(context)

\* a router that sends the users with a large debt to the debt analyzer before
\* it looks at the message
RouteQueryDebtorsFirst(message, context) ==
  LET query_lower == Lower(message)
  IN  IF HandleGeneralQuery(context) = "debt_analyzer" THEN "debt_analyzer"
      ELSE IF AnyKeyword(query_lower, DebtKeywords) THEN "debt_analyzer"
      ELSE IF AnyKeyword(query_lower, SavingsKeywords) THEN "savings_strategy"
      ELSE IF AnyKeyword(query_lower, BudgetKeywords) THEN "budget_optimizer"
      ELSE HandleGeneralQuery(context)

\* handle_user_query, lines 88-98: the agent whose generate_response is called
RouteQuery(message, context) ==
  LET query_lower == Lower(message)
  IN  IF AnyKeyword(query_lower, DebtKeywords) THEN "debt_analyzer"
      ELSE IF AnyKeyword(query_lower, SavingsKeywords) THEN "savings_strategy"
      ELSE IF AnyKeyword(query_lower, BudgetKeywords) THEN "budget_optimizer"
      ELSE HandleGeneralQuery(context)

\* ------------------------------------------------------------------------
\* State
\* ------------------------------------------------------------------------

VARIABLES
  fin,        \* table financial_data: the records of each user
  insights,   \* table agent_insights, in insertion order
  documents,  \* table financial_documents: upload_status and error of each row
  pc,         \* where each request stands
  op,         \* the locals of each request
  ret,        \* the response of the query or analyzer call that returned last
  hist,       \* log of the analysis runs, in order of start
  runs        \* number of analysis runs started so far

vars == << fin, insights, documents, pc, op, ret, hist, runs >>

IdleOp ==
  [kind |-> "none", doc |-> "none", user |-> NoUser, gen |-> 0,
   done |-> {}, err |-> "none",
   message |-> << >>, summary |-> << >>, agent |-> "none"]

NoReturn ==
  [kind |-> "none", agent |-> "none",
   user |-> NoUser, message |-> << >>, summary |-> << >>,
   ok |-> TRUE, err |-> "none", value |-> << >>]

\* the log entry of a run that has started with locals o
Running(o) ==
  [kind |-> o.kind, doc |-> o.doc, user |-> o.user,
   returned |-> FALSE, ok |-> FALSE, err |-> "none", value |-> << >>]

\* the tables and the requests once the service is up, over the records data
Started(data) ==
  /\ fin = data
  /\ insights = << >>
  /\ documents = [d \in DOMAIN DocumentOwner |->
                    [upload_status |-> "processing", error |-> "none"]]
  /\ pc = [p \in Procs |-> "idle"]
  /\ op = [p \in Procs |-> IdleOp]
  /\ ret = NoReturn
  /\ hist = << >>
  /\ runs = 0

Init == \E data \in FinancialData : Started(data)

\* the start of the concurrent runs, which are explored over one data set
InitOne == Started([u \in Users |-> IF u = "u1" THEN ProfDebt ELSE ProfTight])

\* a new request takes the first free slot
FreeSlot(p) == pc[p] = "idle" /\ (p = "p2" => pc["p1"] # "idle")

\* the error a failed data-store call or text-generation call raises
StoreFailure == "StoreFailure"

CollaboratorFailure == "CollaboratorFailure"

\* the errors analyze_document raises itself
ValueErrors ==
  {"No document chunks found", "Could not determine user_id for document"}

\* a handler written `except ValueError`
ExceptCatchesValueError(e) == e \in ValueErrors

\* `except Exception`: the errors the handler of analyze_document catches
ExceptCatches(e) == TRUE

\* the request of p, with locals o, ends: the value (a sequence of one element)
\* or the error goes to the caller; log is the log of the runs started so far
Finish(p, o, ok, e, value, log) ==
  /\ IF o.kind \in {"chat", "agent"}
     THEN /\ ret' = [kind |-> o.kind, agent |-> o.agent,
                     user |-> o.user, message |-> o.message,
                     summary |-> o.summary, ok |-> ok, err |-> e, value |-> value]
          /\ hist' = log
     ELSE /\ hist' = [log EXCEPT ![o.gen] =
                        [@ EXCEPT !.returned = TRUE, !.ok = ok,
                                  !.err = e, !.value = value]]
          /\ UNCHANGED ret
  /\ pc' = [pc EXCEPT ![p] = "idle"]
  /\ op' = [op EXCEPT ![p] = IdleOp]

\* analyze_document, lines 68-71: the handler marks the document and raises
\* the error again
Handler(p, o, e, log) ==
  /\ documents' = UpdateDocumentStatus(documents, o.doc, "failed", e)
  /\ Finish(p, o, FALSE, e, << >>, log)

\* a data-store call of the request of p, with locals o, raises e: the handler
\* of analyze_document runs at once, the other operations let the error reach
\* the caller
Raise(p, o, e, log) ==
  IF o.kind = "analyze" /\ ExceptCatches(e)
  THEN Handler(p, o, e, log)
  ELSE /\ Finish(p, o, FALSE, e, << >>, log)
       /\ UNCHANGED documents

\* ------------------------------------------------------------------------
\* analyze_document
\* ------------------------------------------------------------------------

\* lines 19-34: the error of the reads, f the read that fails (0: none)
AnalyzeError(d, f) ==
  LET chunks == GetDocumentChunks(d)
  IN  IF f = 1 THEN StoreFailure
      ELSE IF chunks = << >> THEN "No document chunks found"
      ELSE IF f = 2 THEN StoreFailure
      ELSE IF ResolveUser(d, chunks) = NoUser
        THEN "Could not determine user_id for document"
      ELSE IF f \in {3, 4} THEN StoreFailure
      ELSE "none"

\* lines 19-52: the reads up to the gather of the three analyzers
AnalyzeDocument(p, d, f) ==
  LET e == AnalyzeError(d, f)
      started == [IdleOp EXCEPT
                    !.kind = "analyze", !.doc = d, !.gen = runs + 1,
                    !.user = IF e = "none"
                             THEN ResolveUser(d, GetDocumentChunks(d)) ELSE NoUser]
  IN  /\ FreeSlot(p)
      /\ runs < MaxRuns
      /\ runs' = runs + 1
      /\ IF e = "none"
         THEN /\ pc' = [pc EXCEPT ![p] = "gather"]
              /\ op' = [op EXCEPT ![p] = started]
              /\ hist' = Append(hist, Running(started))
              /\ UNCHANGED << ret, documents >>
         ELSE Raise(p, started, e, Append(hist, Running(started)))
      /\ UNCHANGED << fin, insights >>

\* lines 68-71: the request resumes in its handler with the error of the gather
Except(p) ==
  /\ pc[p] = "except"
  /\ Handler(p, op[p], op[p].err, hist)
  /\ UNCHANGED << fin, insights, runs >>

\* ------------------------------------------------------------------------
\* refresh_user_analysis
\* ------------------------------------------------------------------------

\* a refresh that goes from its reads straight to the analyzers
RefreshWithoutDeactivation(p, u, f) ==
  LET started == [IdleOp EXCEPT !.kind = "refresh", !.user = u, !.gen = runs + 1]
  IN  /\ FreeSlot(p)
      /\ runs < MaxRuns
      /\ runs' = runs + 1
      /\ IF f = 0
         THEN /\ pc' = [pc EXCEPT ![p] = "gather"]
              /\ op' = [op EXCEPT ![p] = started]
              /\ hist' = Append(hist, Running(started))
              /\ UNCHANGED << ret, documents >>
         ELSE Raise(p, started, StoreFailure, Append(hist, Running(started)))
      /\ UNCHANGED << fin, insights >>

\* lines 105-112: the reads, f the read that fails (0: none)
RefreshUserAnalysis(p, u, f) ==
  LET started == [IdleOp EXCEPT !.kind = "refresh", !.user = u, !.gen = runs + 1]
  IN  /\ FreeSlot(p)
      /\ runs < MaxRuns
      /\ runs' = runs + 1
      /\ IF f = 0
         THEN /\ pc' = [pc EXCEPT ![p] = "deactivate"]
              /\ op' = [op EXCEPT ![p] = started]
              /\ hist' = Append(hist, Running(started))
              /\ UNCHANGED << ret, documents >>
         ELSE Raise(p, started, StoreFailure, Append(hist, Running(started)))
      /\ UNCHANGED << fin, insights >>

\* a deactivation that leaves out the third agent type
DeactivateAllButBudget(tbl, u) ==
  DeactivateOldInsights(
    DeactivateOldInsights(tbl, u, "debt_analyzer"), u, "savings_strategy")

\* lines 115-119: the three gathered deactivations
DeactivateAll(tbl, u) ==
  DeactivateOldInsights(
    DeactivateOldInsights(
      DeactivateOldInsights(tbl, u, "debt_analyzer"), u, "savings_strategy"),
    u, "budget_optimizer")

\* a deactivation that is not restricted to the user of the call
DeactivateEveryUser(p) ==
  /\ pc[p] = "deactivate"
  /\ insights' = [i \in DOMAIN insights |-> [insights[i] EXCEPT !.is_active = FALSE]]
  /\ pc' = [pc EXCEPT ![p] = "gather"]
  /\ UNCHANGED << fin, documents, op, ret, hist, runs >>

Deactivate(p) ==
  /\ pc[p] = "deactivate"
  /\ insights' = DeactivateAll(insights, op[p].user)
  /\ pc' = [pc EXCEPT ![p] = "gather"]
  /\ UNCHANGED << fin, documents, op, ret, hist, runs >>

\* ------------------------------------------------------------------------
\* fan-out, fan-in and persistence, shared by both operations
\* ------------------------------------------------------------------------

\* analyze of agent a returns; with the third result the gather returns
AnalyzerReturn(p, a) ==
  /\ pc[p] = "gather"
  /\ a \notin op[p].done
  /\ op' = [op EXCEPT ![p].done = @ \cup {a}]
  /\ pc' = [pc EXCEPT ![p] =
              IF op[p].done \cup {a} = AgentTypes THEN "store" ELSE "gather"]
  /\ UNCHANGED << fin, insights, documents, ret, hist, runs >>

\* a failure of the gather after which the analysis row of the agent is stored
AnalyzerFailStoresResults(p, a) ==
  /\ pc[p] = "gather"
  /\ a \notin op[p].done
  /\ insights' = StoreAgentInsight(
                    insights,
                    Head(AnalysisRows(op[p].user, Analyze(a, fin[op[p].user]))),
                    op[p].gen)
  /\ Finish(p, op[p], FALSE, CollaboratorFailure, << >>, hist)
  /\ UNCHANGED << fin, documents, runs >>

\* generate_response of agent a raises inside analyze: the gather raises and
\* its results are lost; analyze_document will resume in its handler,
\* refresh_user_analysis lets the error reach the caller
AnalyzerFail(p, a) ==
  /\ pc[p] = "gather"
  /\ a \notin op[p].done
  /\ IF op[p].kind = "analyze" /\ ExceptCatches(CollaboratorFailure)
     THEN /\ pc' = [pc EXCEPT ![p] = "except"]
          /\ op' = [op EXCEPT ![p].err = CollaboratorFailure, ![p].done = {}]
          /\ UNCHANGED << ret, hist >>
     ELSE Finish(p, op[p], FALSE, CollaboratorFailure, << >>, hist)
  /\ UNCHANGED << fin, insights, documents, runs >>

\* the inserts of n at which a failure is injected: the first, the second and
\* the last
FailingInserts(n) == {1, 2, n}

RECURSIVE StoreRows(_, _, _)
\* the rows inserted one after the other
StoreRows(tbl, rows, g) ==
  IF rows = << >> THEN tbl
  ELSE StoreRows(StoreAgentInsight(tbl, Head(rows), g), Tail(rows), g)

\* the counts of refresh_user_analysis taken over the rows stored, the analysis
\* row of each agent included
ReturnValueCountsRows(kind, doc, user, analyses) ==
  IF kind = "analyze"
  THEN [document_id |-> doc, user_id |-> user, analyses |-> analyses,
        summary |-> GenerateSummary(analyses[1], analyses[2], analyses[3])]
  ELSE [debt_insights |-> 1 + Len(analyses[1].recommendations),
        savings_insights |-> 1 + Len(analyses[2].recommendations),
        budget_insights |-> 1 + Len(analyses[3].recommendations)]

\* analyze_document, lines 57-66, and refresh_user_analysis, lines 131-135
ReturnValue(kind, doc, user, analyses) ==
  IF kind = "analyze"
  THEN [document_id |-> doc, user_id |-> user, analyses |-> analyses,
        summary |-> GenerateSummary(analyses[1], analyses[2], analyses[3])]
  ELSE [debt_insights |-> Len(analyses[1].recommendations),
        savings_insights |-> Len(analyses[2].recommendations),
        budget_insights |-> Len(analyses[3].recommendations)]

\* a store that, when insert k raises, marks the rows it has inserted inactive
StoreAgentInsightsUndone(p, k) ==
  LET analyses == GatherAnalyses(fin[op[p].user])
      rows == InsightRows(op[p].user, analyses)
      stored == StoreRows(insights, SubSeq(rows, 1, k - 1), op[p].gen)
  IN  /\ pc[p] = "store"
      /\ k \in {0} \cup FailingInserts(Len(rows))
      /\ IF k = 0
         THEN /\ insights' = StoreRows(insights, rows, op[p].gen)
              /\ Finish(p, op[p], TRUE, "none",
                        << ReturnValue(op[p].kind, op[p].doc, op[p].user, analyses) >>,
                        hist)
              /\ UNCHANGED documents
         ELSE /\ insights' = [i \in DOMAIN stored |->
                                IF stored[i].gen = op[p].gen
                                THEN [stored[i] EXCEPT !.is_active = FALSE]
                                ELSE stored[i]]
              /\ Raise(p, op[p], StoreFailure, hist)
      /\ UNCHANGED << fin, runs >>

\* _store_agent_insights and the return: the inserts run without a suspension
\* point between them; k is the insert that raises (0: none)
StoreAgentInsights(p, k) ==
  LET analyses == GatherAnalyses(fin[op[p].user])
      rows == InsightRows(op[p].user, analyses)
  IN  /\ pc[p] = "store"
      /\ k \in {0} \cup FailingInserts(Len(rows))
      /\ IF k = 0
         THEN /\ insights' = StoreRows(insights, rows, op[p].gen)
              /\ Finish(p, op[p], TRUE, "none",
                        << ReturnValue(op[p].kind, op[p].doc, op[p].user, analyses) >>,
                        hist)
              /\ UNCHANGED documents
         ELSE /\ insights' = StoreRows(insights, SubSeq(rows, 1, k - 1), op[p].gen)
              /\ Raise(p, op[p], StoreFailure, hist)
      /\ UNCHANGED << fin, runs >>

\* ------------------------------------------------------------------------
\* handle_user_query
\* ------------------------------------------------------------------------

\* lines 76-98: the reads (f the read that fails, 0: none; s the summary the
\* data store returns) and the choice of the agent
HandleUserQuery(p, u, message, s, f) ==
  LET context == [financial_data |-> fin[u],
                  financial_summary |-> Summaries[s],
                  recent_insights |-> GetUserInsights(insights, u)]
      started == [IdleOp EXCEPT !.kind = "chat", !.user = u, !.message = message]
  IN  /\ FreeSlot(p)
      /\ IF f = 0
         THEN /\ pc' = [pc EXCEPT ![p] = "chat"]
              /\ op' = [op EXCEPT ![p] =
                          [started EXCEPT !.summary = Summaries[s],
                                          !.agent = RouteQuery(message, context)]]
              /\ UNCHANGED << ret, hist, documents >>
         ELSE Raise(p, started, StoreFailure, hist)
      /\ UNCHANGED << fin, insights, runs >>

\* the query answered by the debt analyzer, whichever agent was chosen
ChatReturnOfDebtAnalyzer(p) ==
  /\ pc[p] = "chat"
  /\ Finish(p, op[p], TRUE, "none",
            << GenerateResponse("debt_analyzer", op[p].message) >>, hist)
  /\ UNCHANGED << fin, insights, documents, runs >>

\* generate_response of the chosen agent returns its narrative
ChatReturn(p) ==
  /\ pc[p] = "chat"
  /\ Finish(p, op[p], TRUE, "none",
            << GenerateResponse(op[p].agent, op[p].message) >>, hist)
  /\ UNCHANGED << fin, insights, documents, runs >>

\* generate_response of the chosen agent raises
ChatFail(p) ==
  /\ pc[p] = "chat"
  /\ Raise(p, op[p], CollaboratorFailure, hist)
  /\ UNCHANGED << fin, insights, runs >>

\* ------------------------------------------------------------------------
\* analyze of one agent, called by itself
\* ------------------------------------------------------------------------

DivisionError == "ZeroDivisionError"

\* a division by zero among the ratios agent a computes before its
\* text-generation call
FaultBeforeResponse(a, data) ==
  LET total_income == SumAmount(OfType(data, "income"))
      total_expenses == SumAmount(OfType(data, "expense"))
  IN  CASE a = "debt_analyzer" ->
             DebtToIncome(SumAmount(OfType(data, "debt")), total_income)
               = ZeroDivision
        [] a = "savings_strategy" ->
             SavingsRate(total_income, total_expenses) = ZeroDivision
        [] a = "budget_optimizer" ->
             \E c \in ExpenseCategories(data) :
                ExpensePercentages(data)[c] = ZeroDivision

\* a division by zero among the ratios agent a computes for its result
FaultInResult(a, data) ==
  LET metrics == Analyze(a, data).metrics
  IN  CASE a = "debt_analyzer" -> FALSE
        [] a = "savings_strategy" ->
             metrics.emergency_fund_progress = ZeroDivision
        [] a = "budget_optimizer" -> metrics.expense_ratio = ZeroDivision

\* analyze of agent a on the records of user u, up to generate_response
AgentAnalyze(p, a, u) ==
  LET started == [IdleOp EXCEPT !.kind = "agent", !.agent = a, !.user = u]
  IN  /\ FreeSlot(p)
      /\ IF FaultBeforeResponse(a, fin[u])
         THEN Finish(p, started, FALSE, DivisionError, << >>, hist)
         ELSE /\ pc' = [pc EXCEPT ![p] = "respond"]
              /\ op' = [op EXCEPT ![p] = started]
              /\ UNCHANGED << ret, hist >>
      /\ UNCHANGED << fin, insights, documents, runs >>

\* generate_response returns: analyze returns its result
AgentReturn(p) ==
  /\ pc[p] = "respond"
  /\ IF FaultInResult(op[p].agent, fin[op[p].user])
     THEN Finish(p, op[p], FALSE, DivisionError, << >>, hist)
     ELSE Finish(p, op[p], TRUE, "none",
                 << Analyze(op[p].agent, fin[op[p].user]) >>, hist)
  /\ UNCHANGED << fin, insights, documents, runs >>

\* a failure of generate_response that analyze covers with an empty narrative
AgentFailFallsBack(p) ==
  /\ pc[p] = "respond"
  /\ Finish(p, op[p], TRUE, "none",
            << [Analyze(op[p].agent, fin[op[p].user]) EXCEPT !.analysis = ""] >>,
            hist)
  /\ UNCHANGED << fin, insights, documents, runs >>

\* generate_response raises: so does analyze
AgentFail(p) ==
  /\ pc[p] = "respond"
  /\ Finish(p, op[p], FALSE, CollaboratorFailure, << >>, hist)
  /\ UNCHANGED << fin, insights, documents, runs >>

\* ------------------------------------------------------------------------
\* Specifications
\* ------------------------------------------------------------------------

\* most rows one run inserts: 3 analyses and the 2, 4 and 5 recommendations
\* the analyzers give at most
MaxRows == 3 + 2 + 4 + 5

\* one step of an analysis run (RunFullAnalysis or RefreshUserAnalysis)
RunStep(p) ==
  \/ \E d \in DocIds, f \in 0..4 : AnalyzeDocument(p, d, f)
  \/ Except(p)
  \/ \E u \in Users, f \in 0..2 : RefreshUserAnalysis(p, u, f)
  \/ Deactivate(p)
  \/ \E a \in AgentTypes : AnalyzerReturn(p, a)
  \/ \E a \in AgentTypes : AnalyzerFail(p, a)
  \/ \E k \in 0..MaxRows : StoreAgentInsights(p, k)

\* one step of a RouteQuery request
ChatStep(p) ==
  \/ \E u \in Users, m \in Messages, s \in 1..Len(Summaries), f \in 0..3 :
        HandleUserQuery(p, u, m, s, f)
  \/ ChatReturn(p)
  \/ ChatFail(p)

\* analysis runs of concurrent callers, interleaved at the suspension points
Next == \E p \in Procs : RunStep(p)

Spec == InitOne /\ [][Next]_vars

\* the analysis runs of one caller: a run starts only after the previous returned
NextSeq == RunStep("p1")

SpecSeq == Init /\ [][NextSeq]_vars

\* the queries of one caller
NextChat == ChatStep("p1")

SpecChat == Init /\ [][NextChat]_vars

\* the messages of the caller below: one with a keyword, one without
CallerMessages == {MsgBudget, MsgHello}

\* the requests of one caller, analysis runs and queries, one after the other
NextCaller ==
  \/ RunStep("p1")
  \/ \E u \in Users, m \in CallerMessages, f \in 0..3 :
        HandleUserQuery("p1", u, m, 1, f)
  \/ ChatReturn("p1")
  \/ ChatFail("p1")

\* one step of a RefreshUserAnalysis
RefreshStep(p) ==
  \/ \E u \in Users, f \in 0..2 : RefreshUserAnalysis(p, u, f)
  \/ Deactivate(p)
  \/ \E a \in AgentTypes : AnalyzerReturn(p, a)
  \/ \E a \in AgentTypes : AnalyzerFail(p, a)
  \/ \E k \in 0..MaxRows : StoreAgentInsights(p, k)

\* the refreshes of concurrent callers, interleaved at the suspension points
NextRefresh == \E p \in Procs : RefreshStep(p)

SpecRefresh == InitOne /\ [][NextRefresh]_vars

\* the queries of one caller between refreshes and RunFullAnalysis calls on a
\* document without chunks, which fill and change the two tables
NextQuery ==
  \/ RefreshStep("p1")
  \/ AnalyzeDocument("p1", "d3", 0)
  \/ \E u \in Users, m \in CallerMessages, f \in 0..3 :
        HandleUserQuery("p1", u, m, 1, f)
  \/ ChatReturn("p1")
  \/ ChatFail("p1")

SpecQuery == InitOne /\ [][NextQuery]_vars

\* What the event loop guarantees: a request that can go on by itself (its
\* deactivations, its inserts, its handler) is resumed.  Nothing is assumed of
\* the text-generation service: no await of the code carries a timeout, so a
\* request waiting for a response goes on only when the response comes.
LiveFairness ==
  /\ WF_vars(Deactivate("p1"))
  /\ WF_vars(Except("p1"))
  /\ WF_vars(\E k \in 0..MaxRows : StoreAgentInsights("p1", k))

SpecCaller == InitOne /\ [][NextCaller]_vars /\ LiveFairness

\* the totals the analyzers are explored over: they fall on, just below and
\* just above the thresholds of the three ladders
Incomes == {0, 70000, 100000, 120000}

Expenses == {0, 56000, 63000, 69000, 70000, 85000, 90000, 95000, 100000,
             102000}

Savings == {0, 25000, 40000}

Debts == {0, 14000, 20000, 21000, 28000, 30000, 40000, 45000}

\* the records with these totals; a total of 0 is the absence of such records
AmountData(i, e, s, d) ==
  (IF i > 0 THEN << Rec("income", "Salary", i, 0) >> ELSE << >>)
  \o (IF e > 0 THEN << Rec("expense", "Housing", e, 0) >> ELSE << >>)
  \o (IF s > 0 THEN << Rec("savings", "Bank", s, 0) >> ELSE << >>)
  \o (IF d > 0 THEN << Rec("debt", "Credit Card", d, 20) >> ELSE << >>)

InitAnalyze ==
  \E i \in Incomes, e \in Expenses, s \in Savings, d \in Debts :
     Started([u \in Users |-> IF u = "u1" THEN AmountData(i, e, s, d)
                                          ELSE ProfEmpty])

\* one step of a call of analyze
AgentStep(p) ==
  \/ \E a \in AgentTypes : AgentAnalyze(p, a, "u1")
  \/ AgentReturn(p)
  \/ AgentFail(p)

\* the analyzers called one at a time on the records of one user
NextAnalyze == AgentStep("p1")

SpecAnalyze == InitAnalyze /\ [][NextAnalyze]_vars

\* ------------------------------------------------------------------------
\* Vocabulary of the properties
\* ------------------------------------------------------------------------

\* the rows run g inserted
InsertedBy(g) == {i \in DOMAIN insights : insights[i].gen = g}

\* the rows run g inserted for agent a with insight type t
InsertedAs(g, a, t) ==
  {i \in InsertedBy(g) :
     insights[i].agent_type = a /\ insights[i].insight_type = t}

\* the generations with an active insight of user u and agent a
ActiveGenerations(u, a) ==
  {insights[i].gen :
     i \in {j \in DOMAIN insights : /\ insights[j].user_id = u
                                    /\ insights[j].agent_type = a
                                    /\ insights[j].is_active}}

\* number of recommendations agent a produces for user u
R(a, u) == Len(Analyze(a, fin[u]).recommendations)

\* number of rows a complete run inserts for user u
RowsOfRun(u) == 3 + R("debt_analyzer", u) + R("savings_strategy", u)
                  + R("budget_optimizer", u)

\* a document analyze_document cannot resolve
Unresolvable(d) ==
  \/ GetDocumentChunks(d) = << >>
  \/ \A doc \in GetUserDocuments(GetDocumentChunks(d)[1].user_id) : doc.id # d

\* ------------------------------------------------------------------------
\* C1
\* ------------------------------------------------------------------------

\* C1: a RunFullAnalysis in which an analyzer failed, whichever of the others
\* had returned, inserts no insight, resumes in its handler, and once it has
\* returned its document is marked failed and the caller has the failure and
\* no report
C1_AnalyzerFailureAllOrNothing ==
  /\ [](\A p \in Procs :
         op[p].kind = "analyze" /\ op[p].err = CollaboratorFailure
           => pc[p] = "except" /\ InsertedBy(op[p].gen) = {})
  /\ [](\A g \in DOMAIN hist :
         hist[g].kind = "analyze" /\ hist[g].err = CollaboratorFailure
           => /\ InsertedBy(g) = {}
              /\ hist[g].returned /\ ~hist[g].ok
              /\ hist[g].value = << >>
              /\ documents[hist[g].doc].upload_status = "failed")
  /\ [][\A p \in Procs :
         op[p].kind = "analyze" /\ (\E a \in AgentTypes : AnalyzerFail(p, a))
           => /\ op'[p].err = CollaboratorFailure
              /\ ~hist'[op[p].gen].returned
              /\ insights' = insights
    ]_vars

\* a run whose analyzer failed has returned, next to a run that inserted
C1_Witness ==
  /\ \E g \in DOMAIN hist :
       /\ hist[g].kind = "analyze" /\ hist[g].returned
       /\ hist[g].err = CollaboratorFailure
       /\ documents[hist[g].doc].upload_status = "failed"
  /\ insights # << >>

\* ------------------------------------------------------------------------
\* C2
\* ------------------------------------------------------------------------

\* C2: after runs that succeeded one after the other, every user has at most
\* one active generation of insights per agent type
C2_OneActiveGeneration ==
  (/\ \A p \in Procs : pc[p] = "idle"
   /\ \A g \in DOMAIN hist : hist[g].ok)
  => \A u \in Users, a \in AgentTypes : Cardinality(ActiveGenerations(u, a)) <= 1

\* ------------------------------------------------------------------------
\* C3
\* ------------------------------------------------------------------------

\* the last two runs are refreshes of the same user that succeeded
TwoRefreshesReturned ==
  /\ \A p \in Procs : pc[p] = "idle"
  /\ Len(hist) >= 2
  /\ hist[Len(hist) - 1].kind = "refresh" /\ hist[Len(hist) - 1].ok
  /\ hist[Len(hist)].kind = "refresh" /\ hist[Len(hist)].ok
  /\ hist[Len(hist) - 1].user = hist[Len(hist)].user

\* C3: when two RefreshUserAnalysis calls for one user succeeded in sequence,
\* the rows of the first are all stored and inactive, the rows of the second
\* are all active, and each agent type has exactly the second generation active
C3_RefreshTwice ==
  TwoRefreshesReturned =>
    LET first == Len(hist) - 1
        second == Len(hist)
        u == hist[second].user
    IN  /\ Cardinality(InsertedBy(first)) = RowsOfRun(u)
        /\ \A i \in InsertedBy(first) : ~insights[i].is_active
        /\ Cardinality(InsertedBy(second)) = RowsOfRun(u)
        /\ \A i \in InsertedBy(second) : insights[i].is_active
        /\ \A a \in AgentTypes : ActiveGenerations(u, a) = {second}

C3_Witness ==
  /\ TwoRefreshesReturned
  /\ \E i \in DOMAIN insights : ~insights[i].is_active
  /\ \E i \in DOMAIN insights : insights[i].is_active

\* ------------------------------------------------------------------------
\* C4
\* ------------------------------------------------------------------------

\* C4: a run that succeeded has inserted, for each agent type, one analysis
\* row and one recommendation row per recommendation of that agent's result
C4_RowsPerAnalyzer ==
  \A g \in DOMAIN hist :
    hist[g].ok =>
      \A a \in AgentTypes :
        /\ Cardinality(InsertedAs(g, a, "analysis")) = 1
        /\ Cardinality(InsertedAs(g, a, "recommendation")) = R(a, hist[g].user)
        /\ Cardinality({j \in InsertedBy(g) : insights[j].agent_type = a})
             = 1 + R(a, hist[g].user)

\* a RunFullAnalysis and a RefreshUserAnalysis succeeded, one of them for a user
\* with an agent of no recommendation and an agent of two
C4_Witness ==
  /\ \E g \in DOMAIN hist : hist[g].ok /\ hist[g].kind = "analyze"
  /\ \E g \in DOMAIN hist : hist[g].ok /\ hist[g].kind = "refresh"
  /\ \E g \in DOMAIN hist :
       /\ hist[g].ok
       /\ \E a \in AgentTypes : R(a, hist[g].user) = 0
       /\ \E a \in AgentTypes : R(a, hist[g].user) >= 2

\* ------------------------------------------------------------------------
\* C5
\* ------------------------------------------------------------------------

\* C5: a recommendation row has priority 8 when its recommendation is tagged
\* emergency_fund or debt_prioritization and 5 otherwise; an analysis row has
\* the priority score of its analyzer
C5_RowPriorities ==
  \A i \in DOMAIN insights :
    LET row == insights[i]
    IN  /\ row.insight_type = "recommendation" =>
             /\ Len(row.recommendations) = 1
             /\ row.recommendations[1] \in {"emergency_fund", "debt_prioritization"}
                  => row.priority_score = 8
             /\ row.recommendations[1] \notin {"emergency_fund", "debt_prioritization"}
                  => row.priority_score = 5
        /\ row.insight_type = "analysis" =>
             row.priority_score
               = Analyze(row.agent_type, fin[row.user_id]).priority_score

\* a boosted row under an analysis of another score, and a row that is not boosted
C5_Witness ==
  /\ \E i \in DOMAIN insights :
       /\ insights[i].insight_type = "recommendation"
       /\ insights[i].priority_score = 8
       /\ Analyze(insights[i].agent_type, fin[insights[i].user_id]).priority_score
            \notin {5, 8}
  /\ \E i \in DOMAIN insights :
       /\ insights[i].insight_type = "recommendation"
       /\ insights[i].priority_score = 5
       /\ Analyze(insights[i].agent_type, fin[insights[i].user_id]).priority_score
            \notin {5, 8}

\* ------------------------------------------------------------------------
\* C6, C7, C8: the router
\* ------------------------------------------------------------------------

HasDebtKeyword(message) == AnyKeyword(Lower(message), DebtKeywords)

HasSavingsKeyword(message) == AnyKeyword(Lower(message), SavingsKeywords)

HasBudgetKeyword(message) == AnyKeyword(Lower(message), BudgetKeywords)

NoKeyword(message) ==
  ~HasDebtKeyword(message) /\ ~HasSavingsKeyword(message) /\ ~HasBudgetKeyword(message)

\* the total debt the financial summary of a query reports
SummaryDebt(o) == DictGet(o.summary, "total_debt", 0)

\* the savings rate of user u, (income - expenses) / income, is below k percent
UserSavingsRateBelow(u, k) ==
  SavingsRateBelow(SumAmount(OfType(fin[u], "income")),
                   SumAmount(OfType(fin[u], "expense")), k)

\* C6: a query goes to the debt analyzer when its message holds a debt keyword,
\* else to the savings analyzer when it holds a savings keyword, else to the
\* budget analyzer when it holds a budget keyword, in any letter case and
\* inside longer words
C6_KeywordPrecedence ==
  \A p \in Procs :
    pc[p] = "chat" =>
      /\ HasDebtKeyword(op[p].message) => op[p].agent = "debt_analyzer"
      /\ ~HasDebtKeyword(op[p].message) /\ HasSavingsKeyword(op[p].message)
           => op[p].agent = "savings_strategy"
      /\ (/\ ~HasDebtKeyword(op[p].message)
          /\ ~HasSavingsKeyword(op[p].message)
          /\ HasBudgetKeyword(op[p].message))
           => op[p].agent = "budget_optimizer"
      /\ op[p].message \in {MsgLoanSave, MsgInteresting, MsgCreditBudget}
           => op[p].agent = "debt_analyzer"
      /\ op[p].message = MsgSaveCost => op[p].agent = "savings_strategy"
      /\ op[p].message = MsgBudget => op[p].agent = "budget_optimizer"

\* "pay off my loan and save more" is on its way to the debt analyzer
C6_Witness ==
  \E p \in Procs :
    /\ pc[p] = "chat"
    /\ op[p].message = MsgLoanSave
    /\ HasSavingsKeyword(op[p].message)
    /\ op[p].agent = "debt_analyzer"

\* C7: a query without keyword of a user whose summary reports a total debt
\* above 10000 goes to the debt analyzer
C7_FallbackDebt ==
  \A p \in Procs :
    pc[p] = "chat" /\ NoKeyword(op[p].message) /\ SummaryDebt(op[p]) > 10000
      => op[p].agent = "debt_analyzer"

\* such a query of a user who saves 15% or more
C7_Witness ==
  \E p \in Procs :
    /\ pc[p] = "chat"
    /\ NoKeyword(op[p].message)
    /\ SummaryDebt(op[p]) = 15000
    /\ ~UserSavingsRateBelow(op[p].user, 15)
    /\ op[p].agent = "debt_analyzer"

\* C8: a query without keyword of a user with a total debt of at most 10000
\* goes to the savings analyzer when the user saves less than 15% and to the
\* budget analyzer otherwise
C8_FallbackSavingsBudget ==
  \A p \in Procs :
    pc[p] = "chat" /\ NoKeyword(op[p].message) /\ SummaryDebt(op[p]) <= 10000
      => /\ UserSavingsRateBelow(op[p].user, 15) => op[p].agent = "savings_strategy"
         /\ ~UserSavingsRateBelow(op[p].user, 15) => op[p].agent = "budget_optimizer"

\* ------------------------------------------------------------------------
\* C9
\* ------------------------------------------------------------------------

\* C9: when a RunFullAnalysis returns a failure (of a read, an analyzer or an
\* insert), the status of its document becomes failed with that error in the
\* same step and the caller has the error and no report; a run in its handler
\* goes nowhere but to that return; a report is returned only when no step
\* failed and every insert was made
C9_FailureMarksDocument ==
  /\ [](\A p \in Procs :
         op[p].kind = "analyze" => (op[p].err # "none" <=> pc[p] = "except"))
  /\ [](\A g \in DOMAIN hist :
         hist[g].kind = "analyze" /\ hist[g].returned =>
           IF hist[g].ok
           THEN /\ hist[g].err = "none"
                /\ Len(hist[g].value) = 1
                /\ Cardinality(InsertedBy(g)) = RowsOfRun(hist[g].user)
           ELSE /\ hist[g].err # "none"
                /\ hist[g].value = << >>
                /\ hist[g].doc \in DOMAIN documents =>
                     /\ documents[hist[g].doc].upload_status = "failed"
                     /\ documents[hist[g].doc].error # "none")
  /\ [][\A g \in DOMAIN hist' :
         (/\ hist'[g].kind = "analyze"
          /\ hist'[g].returned /\ ~hist'[g].ok
          /\ g \in DOMAIN hist => ~hist[g].returned)
           => /\ hist'[g].doc \in DOMAIN documents =>
                   documents'[hist'[g].doc]
                     = [upload_status |-> "failed", error |-> hist'[g].err]
    ]_vars
  /\ [][\A p \in Procs :
         pc[p] = "except" /\ pc'[p] # "except"
           => /\ hist'[op[p].gen].returned /\ ~hist'[op[p].gen].ok
              /\ hist'[op[p].gen].err = op[p].err
    ]_vars

\* a run returned the failure of an insert after it had inserted rows
C9_Witness ==
  \E g \in DOMAIN hist :
    /\ hist[g].kind = "analyze" /\ hist[g].returned
    /\ ~hist[g].ok /\ hist[g].err = StoreFailure
    /\ InsertedBy(g) # {}
    /\ documents[hist[g].doc] = [upload_status |-> "failed", error |-> StoreFailure]

\* ------------------------------------------------------------------------
\* C10
\* ------------------------------------------------------------------------

\* C10: a RunFullAnalysis on a document without chunks or without resolvable
\* owner returns an error from its reads, a ValueError when no read fails; it
\* starts no analyzer and leaves the insights as they are
C10_UnresolvableDocument ==
  /\ [](\A g \in DOMAIN hist :
         hist[g].kind = "analyze" /\ Unresolvable(hist[g].doc)
           => /\ hist[g].returned /\ ~hist[g].ok
              /\ hist[g].err \in ValueErrors \cup {StoreFailure}
              /\ InsertedBy(g) = {})
  /\ [][(/\ runs' = runs + 1
          /\ hist'[runs'].kind = "analyze"
          /\ Unresolvable(hist'[runs'].doc))
           => /\ pc' = pc
              /\ insights' = insights
              /\ \A p \in Procs :
                   AnalyzeDocument(p, hist'[runs'].doc, 0)
                     => hist'[runs'].err \in ValueErrors
    ]_vars

\* both not-found errors were returned, and neither run inserted a row
C10_Witness ==
  /\ \E g \in DOMAIN hist :
       /\ hist[g].kind = "analyze" /\ hist[g].doc = "d3" /\ hist[g].returned
       /\ hist[g].err = "No document chunks found"
       /\ InsertedBy(g) = {}
  /\ \E g \in DOMAIN hist :
       /\ hist[g].kind = "analyze" /\ hist[g].doc = "d4" /\ hist[g].returned
       /\ hist[g].err = "Could not determine user_id for document"
       /\ InsertedBy(g) = {}

\* ------------------------------------------------------------------------
\* The priority ladders of the analyzers
\* ------------------------------------------------------------------------

\* the total of the records of type t of user u
TotalOf(u, t) == SumAmount(OfType(fin[u], t))

\* the call of analyze of agent a that returned last gave a result
Analyzed(a) == ret.kind = "agent" /\ ret.agent = a /\ ret.ok

\* n / d, taken as a percentage, is above k (is at most k), for d > 0
PercentAbove(n, d, k) == n * 100 > k * d

PercentAtMost(n, d, k) == n * 100 <= k * d

\* C12: for every total debt >= 0 and total income > 0, with ratio =
\* debt / income as a percentage, the debt analyzer's priority_score is 10 if
\* ratio > 40, 8 if 30 < ratio <= 40 (exactly 40% gives 8), 6 if
\* 20 < ratio <= 30, 4 if debt > 0 and ratio <= 20, and 1 if there is no debt,
\* whatever the expenses and the savings are.
C12_DebtLadder ==
  LET debt == TotalOf(ret.user, "debt")
      income == TotalOf(ret.user, "income")
      score == ret.value[1].priority_score
  IN  (Analyzed("debt_analyzer") /\ income > 0) =>
        /\ PercentAbove(debt, income, 40) => score = 10
        /\ (PercentAbove(debt, income, 30) /\ PercentAtMost(debt, income, 40))
             => score = 8
        /\ (PercentAbove(debt, income, 20) /\ PercentAtMost(debt, income, 30))
             => score = 6
        /\ (debt > 0 /\ PercentAtMost(debt, income, 20)) => score = 4
        /\ debt = 0 => score = 1

\* the debt analyzer returned score 8 for a debt of exactly 40% of the income
C12_Witness ==
  /\ Analyzed("debt_analyzer")
  /\ TotalOf(ret.user, "income") > 0
  /\ TotalOf(ret.user, "debt") * 100 = 40 * TotalOf(ret.user, "income")
  /\ ret.value[1].priority_score = 8

\* n / d, taken as a percentage, is at least k (is below k), for d > 0
PercentAtLeast(n, d, k) == n * 100 >= k * d

PercentBelow(n, d, k) == n * 100 < k * d

\* C13: for every total income > 0 and total expenses >= 0, with r =
\* expenses / income, the budget analyzer's priority_score is 10 if r >= 100%,
\* 8 if 95% <= r < 100%, 6 if 85% <= r < 95%, 4 if 70% <= r < 85%, and 2 if
\* r < 70%; income 120000 with expenses 102000 gives 6.
C13_BudgetLadder ==
  LET expenses == TotalOf(ret.user, "expense")
      income == TotalOf(ret.user, "income")
      score == ret.value[1].priority_score
  IN  (Analyzed("budget_optimizer") /\ income > 0) =>
        /\ PercentAtLeast(expenses, income, 100) => score = 10
        /\ (PercentAtLeast(expenses, income, 95)
              /\ PercentBelow(expenses, income, 100)) => score = 8
        /\ (PercentAtLeast(expenses, income, 85)
              /\ PercentBelow(expenses, income, 95)) => score = 6
        /\ (PercentAtLeast(expenses, income, 70)
              /\ PercentBelow(expenses, income, 85)) => score = 4
        /\ PercentBelow(expenses, income, 70) => score = 2
        /\ (income = 120000 /\ expenses = 102000) => score = 6

\* 6 * monthly expenses - total savings > 10000, with monthly expenses a
\* twelfth of the expenses of the year
GapAbove10000(u) == TotalOf(u, "expense") - 2 * TotalOf(u, "savings") > 2 * 10000

\* (monthly income - monthly expenses) / monthly income, as a percentage, is
\* below k; the rate is 0 when the income is 0
RateBelow(u, k) ==
  IF TotalOf(u, "income") > 0
  THEN PercentBelow(TotalOf(u, "income") - TotalOf(u, "expense"),
                    TotalOf(u, "income"), k)
  ELSE 0 < k

\* C14: for every input, with gap = max(0, 6 * monthly expenses - total
\* savings) and savings rate = (monthly income - monthly expenses) / monthly
\* income as a percentage (0 when income is 0), the savings analyzer's
\* priority_score is 9 if gap > 10000, else 7 if savings rate < 10, else 5 if
\* savings rate < 20, else 3.
C14_SavingsLadder ==
  LET u == ret.user
      score == ret.value[1].priority_score
  IN  Analyzed("savings_strategy") =>
        score = IF GapAbove10000(u) THEN 9
                ELSE IF RateBelow(u, 10) THEN 7
                ELSE IF RateBelow(u, 20) THEN 5
                ELSE 3

\* ------------------------------------------------------------------------
\* Records without income
\* ------------------------------------------------------------------------

\* the call of analyze that returned last was given records without income
CalledWithoutIncome == ret.kind = "agent" /\ TotalOf(ret.user, "income") = 0

\* the ratios of the result that are computed from the income
IncomeRatiosZero ==
  /\ Analyzed("debt_analyzer") =>
       IsZero(ret.value[1].metrics.debt_to_income_ratio)
  /\ Analyzed("savings_strategy") => IsZero(ret.value[1].metrics.savings_rate)
  /\ Analyzed("budget_optimizer") =>
       /\ IsZero(ret.value[1].metrics.expense_ratio)
       /\ \A c \in ExpenseCategories(fin[ret.user]) :
             IsZero(ExpensePercentages(fin[ret.user])[c])

\* C15, as stated: for every record set whose total income is 0, each analyzer
\* completes without a division fault and debt_to_income_ratio, savings_rate,
\* emergency_fund_progress, expense_ratio and the per-category expense
\* percentages are all 0.
C15_AllRatiosZero ==
  CalledWithoutIncome =>
    /\ ret.err # DivisionError
    /\ IncomeRatiosZero
    /\ Analyzed("savings_strategy") =>
         IsZero(ret.value[1].metrics.emergency_fund_progress)

\* C15, amended: for every record set whose total income is 0, each analyzer
\* completes without a division fault and debt_to_income_ratio, savings_rate,
\* expense_ratio and the per-category expense percentages are 0;
\* emergency_fund_progress does not depend on the income: it is 0 exactly when
\* the expenses or the savings are 0.
C15_IncomeRatiosZero ==
  CalledWithoutIncome =>
    /\ ret.err # DivisionError
    /\ IncomeRatiosZero
    /\ Analyzed("savings_strategy") =>
         (IsZero(ret.value[1].metrics.emergency_fund_progress)
            <=> (TotalOf(ret.user, "expense") = 0
                   \/ TotalOf(ret.user, "savings") = 0))

\* the savings analyzer returned for records with expenses and savings and no
\* income: its savings_rate is 0, its emergency_fund_progress is not
C15_Witness ==
  /\ CalledWithoutIncome
  /\ Analyzed("savings_strategy")
  /\ TotalOf(ret.user, "expense") > 0
  /\ TotalOf(ret.user, "savings") > 0
  /\ IsZero(ret.value[1].metrics.savings_rate)
  /\ ~ IsZero(ret.value[1].metrics.emergency_fund_progress)

\* ------------------------------------------------------------------------
\* What the analysis runs return
\* ------------------------------------------------------------------------

\* the count a RefreshUserAnalysis that returned as run g reports for agent a
ReportedCount(g, a) ==
  CASE a = "debt_analyzer" -> hist[g].value[1].debt_insights
    [] a = "savings_strategy" -> hist[g].value[1].savings_insights
    [] a = "budget_optimizer" -> hist[g].value[1].budget_insights

\* C16: a RefreshUserAnalysis that succeeded returns, for each of the three
\* analyzers, the number of recommendations that analyzer produced, which is
\* the number of recommendation insights this call inserted for that agent type.
C16_RefreshCounts ==
  \A g \in DOMAIN hist :
    (hist[g].kind = "refresh" /\ hist[g].ok) =>
      \A a \in AgentTypes :
        /\ ReportedCount(g, a) = R(a, hist[g].user)
        /\ ReportedCount(g, a) =
             Cardinality(InsertedAs(g, a, "recommendation"))

\* a RefreshUserAnalysis succeeded for a user whose analyzers give different
\* numbers of recommendations, after an earlier run for the same user
C16_Witness ==
  \E g \in DOMAIN hist :
    /\ hist[g].kind = "refresh" /\ hist[g].ok
    /\ ReportedCount(g, "debt_analyzer") # ReportedCount(g, "savings_strategy")
    /\ \E a \in AgentTypes : ReportedCount(g, a) >= 2
    /\ \E h \in 1..(g - 1) : hist[h].ok /\ hist[h].user = hist[g].user

\* the report of the RunFullAnalysis that returned as run g holds the result of
\* each of the three analyzers
HoldsAllResults(g) ==
  /\ hist[g].value[1].document_id = hist[g].doc
  /\ hist[g].value[1].user_id = hist[g].user
  /\ \A i \in 1..3 :
       hist[g].value[1].analyses[i] = Analyze(AgentOrder[i], fin[hist[g].user])

\* C17, as stated: the report of a RunFullAnalysis that succeeded contains all
\* three analyzer results and a summary of one segment for each analyzer
\* (debt, savings, budget, in that order), for every input, a user with no
\* debt included.
C17_SummaryOfThree ==
  \A g \in DOMAIN hist :
    (hist[g].kind = "analyze" /\ hist[g].ok) =>
      /\ HoldsAllResults(g)
      /\ hist[g].value[1].summary =
           << "Debt Analysis", "Savings Analysis", "Budget Analysis" >>

\* C17, amended: the report of a RunFullAnalysis that succeeded contains all
\* three analyzer results and a summary made of the savings segment and the
\* budget segment, in that order, preceded by the debt segment exactly when the
\* total debt of the user is above 0.
C17_SummaryByDebt ==
  \A g \in DOMAIN hist :
    (hist[g].kind = "analyze" /\ hist[g].ok) =>
      /\ HoldsAllResults(g)
      /\ hist[g].value[1].summary =
           IF TotalOf(hist[g].user, "debt") > 0
           THEN << "Debt Analysis", "Savings Analysis", "Budget Analysis" >>
           ELSE << "Savings Analysis", "Budget Analysis" >>

\* a RunFullAnalysis succeeded for a user with income and expenses and no debt:
\* its summary has two segments
C17_Witness ==
  \E g \in DOMAIN hist :
    /\ hist[g].kind = "analyze" /\ hist[g].ok
    /\ TotalOf(hist[g].user, "debt") = 0
    /\ TotalOf(hist[g].user, "income") > 0
    /\ Len(hist[g].value[1].summary) = 2

\* ------------------------------------------------------------------------
\* Concurrent refreshes
\* ------------------------------------------------------------------------

\* the request of p is a RefreshUserAnalysis that takes its deactivation step
DeactivationStep(p) ==
  pc[p] = "deactivate" /\ pc'[p] = "gather" /\ op[p].kind = "refresh"

\* the request of p is a RefreshUserAnalysis that takes its insert step
InsertStep(p) ==
  pc[p] = "store" /\ pc'[p] = "idle" /\ op[p].kind = "refresh"

\* runs g and h are refreshes of one user and both have active insights of one
\* agent type
BothActive(g, h) ==
  /\ hist[g].kind = "refresh" /\ hist[h].kind = "refresh"
  /\ hist[g].user = hist[h].user
  /\ \E a \in AgentTypes : {g, h} \subseteq ActiveGenerations(hist[g].user, a)

\* C18: concurrent refreshes of one user can leave two generations active at
\* once, and leave the user without active insights while a refresh is in
\* flight.  The deactivation step of a refresh turns off every insight of its
\* user, whichever run inserted it, and leaves the refresh in flight with no
\* active insight for any agent type; its insert step, taken later, turns off
\* nothing and adds its generation to whatever is active by then.
C18_DeactivateThenInsert ==
  [][\A p \in Procs :
       /\ DeactivationStep(p) =>
            \A a \in AgentTypes : ActiveGenerations(op[p].user, a)' = {}
       /\ InsertStep(p) =>
            \A u \in Users, a \in AgentTypes :
              /\ ActiveGenerations(u, a) \subseteq ActiveGenerations(u, a)'
              /\ ActiveGenerations(u, a)' \subseteq
                   ActiveGenerations(u, a) \cup {op[p].gen}]_vars

\* two refreshes of one user, both returned with success, have both their
\* generation active for one agent type
C18_Witness ==
  \E g \in DOMAIN hist, h \in DOMAIN hist :
    /\ g # h
    /\ hist[g].ok /\ hist[h].ok
    /\ BothActive(g, h)

\* no request is in flight, and the runs so far are refreshes that returned
\* with success, one of them at least for user u
RefreshesCompleted(u) ==
  /\ \A p \in Procs : pc[p] = "idle"
  /\ \A g \in DOMAIN hist : hist[g].kind = "refresh" /\ hist[g].ok
  /\ \E g \in DOMAIN hist : hist[g].user = u

\* C19: the inconsistency left by concurrent refreshes is temporary: once every
\* RefreshUserAnalysis in flight for a user has completed with success and no
\* further call is started, each agent type of that user has exactly one
\* active generation of insights.
C19_OneGenerationAfterRefreshes ==
  \A u \in Users :
    RefreshesCompleted(u) =>
      \A a \in AgentTypes : Cardinality(ActiveGenerations(u, a)) = 1

\* ------------------------------------------------------------------------
\* Termination
\* ------------------------------------------------------------------------

\* C20: every RunFullAnalysis, RefreshUserAnalysis and RouteQuery eventually
\* returns, with a result or a failure, even if a text-generation call never
\* responds.
C20_EventuallyReturns ==
  \A p \in Procs : (pc[p] # "idle") ~> (pc[p] = "idle")

\* ------------------------------------------------------------------------
\* What a query touches
\* ------------------------------------------------------------------------

\* the context handle_user_query builds for user u when the data store
\* returns summary
QueryContext(u, summary) ==
  [financial_data |-> fin[u],
   financial_summary |-> summary,
   recent_insights |-> GetUserInsights(insights, u)]

\* a step of a RouteQuery request: its start, its return or its failure
QueryStep ==
  \/ \E p \in Procs : op[p].kind = "chat" \/ op'[p].kind = "chat"
  \/ ret' # ret

\* C11: RouteQuery asks exactly one analyzer, the one the router selects,
\* returns the narrative of that analyzer as it is, and leaves the insights
\* and the status of every document as they were.
C11_QueryReadsOnly ==
  /\ [](\A p \in Procs :
          pc[p] = "chat" =>
            /\ op[p].agent \in AgentTypes
            /\ op[p].agent =
                 RouteQuery(op[p].message, QueryContext(op[p].user, op[p].summary)))
  /\ []((ret.kind = "chat" /\ ret.ok) =>
          /\ ret.agent = RouteQuery(ret.message, QueryContext(ret.user, ret.summary))
          /\ ret.value = << GenerateResponse(ret.agent, ret.message) >>)
  /\ [][QueryStep => (insights' = insights /\ documents' = documents)]_vars

\* a query with a keyword is with the budget analyzer after a query has
\* returned, while the store holds insights and a document is marked failed
C11_Witness ==
  /\ ret.kind = "chat" /\ ret.ok
  /\ \E p \in Procs :
       /\ pc[p] = "chat"
       /\ op[p].agent = "budget_optimizer"
       /\ HasBudgetKeyword(op[p].message)
  /\ \E i \in DOMAIN insights : insights[i].is_active
  /\ \E d \in DOMAIN documents : documents[d].upload_status = "failed"

\* ------------------------------------------------------------------------
\* Order of the steps of one run
\* ------------------------------------------------------------------------

\* the rows run g inserted for agent a
RowsOf(g, a) == {i \in InsertedBy(g) : insights[i].agent_type = a}

\* how many rows run g inserted for agent a before row i
RankIn(g, a, i) == Cardinality({j \in RowsOf(g, a) : j < i})

\* C21: within one RunFullAnalysis or RefreshUserAnalysis no insight is
\* inserted before all three analyzers have returned; for each analyzer result
\* the analysis insight is inserted before the recommendation insights, which
\* follow in the order of the recommendation list.
C21_FanInThenOrderedInserts ==
  /\ [][Len(insights') > Len(insights) =>
          \E p \in Procs :
            /\ pc[p] = "store"
            /\ op[p].done = AgentTypes
            /\ \A i \in (Len(insights) + 1)..Len(insights') :
                 insights'[i].gen = op[p].gen]_vars
  /\ [](\A g \in DOMAIN hist, a \in AgentTypes :
          \A i \in RowsOf(g, a) :
            IF RankIn(g, a, i) = 0
            THEN insights[i].insight_type = "analysis"
            ELSE /\ insights[i].insight_type = "recommendation"
                 /\ insights[i].recommendations =
                      << Analyze(a, fin[hist[g].user]).recommendations[RankIn(g, a, i)] >>)

\* a run has inserted the rows of an analyzer that gave three recommendations
\* or more, and a run has stopped inside the rows of an analyzer
C21_Witness ==
  /\ \E g \in DOMAIN hist, a \in AgentTypes :
       hist[g].ok /\ Cardinality(RowsOf(g, a)) >= 4
  /\ \E g \in DOMAIN hist, a \in AgentTypes :
       /\ hist[g].err = StoreFailure
       /\ RowsOf(g, a) # {}
       /\ Cardinality(RowsOf(g, a)) < 1 + R(a, hist[g].user)

\* the request of p is a RefreshUserAnalysis past its deactivation step
PastDeactivation(p) ==
  op[p].kind = "refresh" /\ pc[p] \in {"gather", "store"}

\* C22: within one RefreshUserAnalysis the deactivation of the user's insights
\* for all three agent types is complete before an analyzer result exists and
\* before an insight is inserted, so no insight the call inserts is deactivated
\* by the call itself.
C22_DeactivationFirst ==
  /\ [](\A p \in Procs :
          /\ (op[p].kind = "refresh" /\ pc[p] = "deactivate") =>
               (op[p].done = {} /\ InsertedBy(op[p].gen) = {})
          /\ PastDeactivation(p) =>
               /\ InsertedBy(op[p].gen) = {}
               /\ \A a \in AgentTypes : ActiveGenerations(op[p].user, a) = {})
  /\ [][\A p \in Procs :
          /\ DeactivationStep(p) =>
               \A a \in AgentTypes : ActiveGenerations(op[p].user, a)' = {}
          /\ \A g \in DOMAIN hist :
               (InsertStep(p) /\ g = op[p].gen) =>
                 \A i \in InsertedBy(g)' : insights'[i].is_active]_vars
  /\ [](\A g \in DOMAIN hist :
          (hist[g].kind = "refresh" /\ runs = g) =>
            \A i \in InsertedBy(g) : insights[i].is_active)

\* a RefreshUserAnalysis has returned with success for a user whose insights
\* of an earlier run it deactivated, and its own insights are active
C22_Witness ==
  \E g \in DOMAIN hist, h \in DOMAIN hist :
    /\ h < g
    /\ hist[g].kind = "refresh" /\ hist[g].ok
    /\ hist[h].user = hist[g].user
    /\ InsertedBy(h) # {}
    /\ \A i \in InsertedBy(h) : ~ insights[i].is_active
    /\ InsertedBy(g) # {}
    /\ \A i \in InsertedBy(g) : insights[i].is_active

\* ------------------------------------------------------------------------
\* A refresh that fails after its deactivation
\* ------------------------------------------------------------------------

\* the RefreshUserAnalysis of p returns with the failure of an analyzer
AnalyzerFailureReturn(p) ==
  op[p].kind = "refresh" /\ pc[p] = "gather" /\ pc'[p] = "idle"

\* an insight of user u is active after the step that was not active before
BecomesActive(u) ==
  \E i \in DOMAIN insights' :
    /\ insights'[i].user_id = u
    /\ insights'[i].is_active
    /\ i \in DOMAIN insights => ~ insights[i].is_active

\* C23, as stated: when a RefreshUserAnalysis fails after its deactivation step
\* because an analyzer fails, then on return the user has zero active insights
\* for all three agent types, no new insight was inserted, nothing is restored
\* and the failure reaches the caller.
C23_ZeroActiveOnFailure ==
  [][\A p \in Procs, u \in Users, g \in DOMAIN hist :
       (AnalyzerFailureReturn(p) /\ u = op[p].user /\ g = op[p].gen) =>
         /\ \A a \in AgentTypes : ActiveGenerations(u, a)' = {}
         /\ insights' = insights
         /\ InsertedBy(g)' = {}
         /\ hist'[g].returned /\ ~ hist'[g].ok
         /\ hist'[g].err = CollaboratorFailure]_vars

\* C23, amended: when a RefreshUserAnalysis fails after its deactivation step
\* because an analyzer fails, the call has inserted no insight, restores none
\* and passes the failure to the caller; its deactivation step left the user
\* with zero active insights, and from then to the return an insight of the
\* user becomes active only by the insert step of another call, so on return
\* the user has zero active insights unless a concurrent call inserted some.
C23_NothingInsertedOrRestored ==
  [][\A p \in Procs :
       /\ DeactivationStep(p) =>
            \A a \in AgentTypes : ActiveGenerations(op[p].user, a)' = {}
       /\ (PastDeactivation(p) /\ BecomesActive(op[p].user)) =>
            \/ pc[p] = "store" /\ pc'[p] = "idle"
            \/ \E q \in Procs \ {p} :
                 /\ pc[q] = "store" /\ pc'[q] = "idle"
                 /\ op[q].user = op[p].user
                 /\ pc'[p] = pc[p]
       /\ \A g \in DOMAIN hist :
            (AnalyzerFailureReturn(p) /\ g = op[p].gen) =>
              /\ insights' = insights
              /\ InsertedBy(g)' = {}
              /\ hist'[g].returned /\ ~ hist'[g].ok
              /\ hist'[g].err = CollaboratorFailure]_vars

\* a RefreshUserAnalysis has returned with the failure of an analyzer: the
\* insights an earlier run inserted for its user are all inactive, it has
\* inserted none and the user has no active insight
C23_Witness ==
  \E g \in DOMAIN hist, h \in DOMAIN hist :
    /\ h < g
    /\ hist[g].kind = "refresh" /\ hist[g].returned
    /\ hist[g].err = CollaboratorFailure
    /\ hist[h].user = hist[g].user
    /\ InsertedBy(h) # {}
    /\ InsertedBy(g) = {}
    /\ \A a \in AgentTypes : ActiveGenerations(hist[g].user, a) = {}

\* ------------------------------------------------------------------------
\* Insights are kept
\* ------------------------------------------------------------------------

\* row i of the table before the step is the same row after it, up to its
\* is_active flag, which the step may only clear
KeptByStep(i) ==
  /\ i \in DOMAIN insights'
  /\ [insights'[i] EXCEPT !.is_active = FALSE] =
       [insights[i] EXCEPT !.is_active = FALSE]
  /\ insights'[i].is_active => insights[i].is_active

MetricAtLeast(m, k) ==
  \/ m.num > k * m.den
  \/ /\ m.num = k * m.den
     /\ \A pair \in ExpenseRatioRoundsDown :
          ~ (pair[1] * 100 = m.num /\ pair[2] = m.den)

\* the band of the ladder a reported expense_ratio falls in
LadderBand(m) ==
  IF MetricAtLeast(m, 100) THEN 10
  ELSE IF MetricAtLeast(m, 95) THEN 8
  ELSE IF MetricAtLeast(m, 85) THEN 6
  ELSE IF MetricAtLeast(m, 70) THEN 4
  ELSE 2

\* C25: for every record set, those with total income 0 included, the
\* priority_score of a budget result is the ladder band of the expense_ratio
\* metric of the same result; an expense_ratio of 0 gives score 2.
C25_ScoreIsBandOfReportedRatio ==
  Analyzed("budget_optimizer") =>
    LET result == ret.value[1]
    IN  /\ result.priority_score = LadderBand(result.metrics.expense_ratio)
        /\ IsZero(result.metrics.expense_ratio) => result.priority_score = 2

\* ------------------------------------------------------------------------
\* analyze without a narrative
\* ------------------------------------------------------------------------

\* the call of analyze that returned last failed in its text-generation call
TextGenerationFailed == ret.kind = "agent" /\ ret.err = CollaboratorFailure

\* C26: analyze fails whenever its text-generation call fails: it returns no
\* result with a fallback or empty narrative, and no metrics or
\* recommendations in that case.
C26_FailsWithTextGeneration ==
  /\ [](TextGenerationFailed => (~ ret.ok /\ ret.value = << >>))
  /\ [](\A a \in AgentTypes :
          Analyzed(a) =>
            /\ ret.value = << Analyze(a, fin[ret.user]) >>
            /\ ret.value[1].analysis = "narrative")
  /\ [][\A p \in Procs :
          (pc[p] = "respond" /\ pc'[p] = "idle") =>
            \/ Analyzed(ret.agent)'
            \/ ~ ret'.ok /\ ret'.value = << >>]_vars

\* analyze has failed in its text-generation call on records that give a debt
\* ratio and recommendations
C26_Witness ==
  /\ TextGenerationFailed
  /\ ret.agent = "debt_analyzer"
  /\ TotalOf(ret.user, "debt") > 0 /\ TotalOf(ret.user, "income") > 0
  /\ Analyze(ret.agent, fin[ret.user]).recommendations # << >>

\* ------------------------------------------------------------------------
\* A failing insert
\* ------------------------------------------------------------------------

\* the rows a run for user u has to insert, in the order of the inserts
RowsToInsert(u) == InsightRows(u, GatherAnalyses(fin[u]))

\* the place of agent type a in the order of the analyzers
AgentRank(a) == CHOOSE i \in 1..3 : AgentOrder[i] = a

\* the run of p ends in its store step with the failure of an insert
InsertFailureReturn(p) ==
  /\ pc[p] = "store"
  /\ pc'[p] = "idle"
  /\ ~ hist'[op[p].gen].ok

\* a refresh for the user of run g has started after g
RefreshedSince(g) ==
  \E h \in DOMAIN hist :
    h > g /\ hist[h].kind = "refresh" /\ hist[h].user = hist[g].user

\* C27: persistence is not rolled back: when the k-th insert of a
\* RunFullAnalysis or RefreshUserAnalysis fails, the k-1 insights the call has
\* inserted stay persisted and active, the others are never inserted, and the
\* inserts go in the order debt_analyzer, savings_strategy, budget_optimizer.
C27_NoRollback ==
  /\ [][\A p \in Procs :
          InsertFailureReturn(p) =>
            LET rows == RowsToInsert(op[p].user)
                n == Len(insights') - Len(insights)
            IN  /\ hist'[op[p].gen].err = StoreFailure
                /\ n \in 0..(Len(rows) - 1)
                /\ insights' =
                     StoreRows(insights, SubSeq(rows, 1, n), op[p].gen)
                /\ \A i \in (Len(insights) + 1)..Len(insights') :
                     insights'[i].is_active]_vars
  /\ [](\A g \in DOMAIN hist :
          (hist[g].returned /\ ~ hist[g].ok) =>
            /\ InsertedBy(g) # {} =>
                 /\ hist[g].err = StoreFailure
                 /\ Cardinality(InsertedBy(g)) < Len(RowsToInsert(hist[g].user))
            /\ RefreshedSince(g) \/ \A i \in InsertedBy(g) : insights[i].is_active)
  /\ [](\A g \in DOMAIN hist :
          \A i \in InsertedBy(g), j \in InsertedBy(g) :
            i < j => AgentRank(insights[i].agent_type)
                       <= AgentRank(insights[j].agent_type))

\* a run has failed at its second insert and one at its last insert: the
\* first has left one active insight, the second all but the last one, and
\* the rows of the second are of the three agent types
C27_Witness ==
  \E g \in DOMAIN hist, h \in DOMAIN hist :
    /\ hist[g].err = StoreFailure /\ hist[h].err = StoreFailure
    /\ Cardinality(InsertedBy(g)) = 1
    /\ \A i \in InsertedBy(g) : insights[i].is_active
    /\ Cardinality(InsertedBy(h)) > 1
    /\ Cardinality(InsertedBy(h)) = Len(RowsToInsert(hist[h].user)) - 1
    /\ {insights[i].agent_type : i \in InsertedBy(h)} = AgentTypes

\* ------------------------------------------------------------------------
\* The insights of other users
\* ------------------------------------------------------------------------

\* the run of p, an analysis run under way, takes a step
RunActs(p) ==
  /\ op[p].kind \in {"analyze", "refresh"}
  /\ pc'[p] # pc[p] \/ op'[p] # op[p]

\* C28: RunFullAnalysis and RefreshUserAnalysis for user A leave the is_active
\* flag and the content of every insight of another user as they are, and every
\* insight they insert has user_id = A and one of the three agent types.
C28_OtherUsersUntouched ==
  /\ [][\A p \in Procs :
          RunActs(p) =>
            /\ \A i \in DOMAIN insights :
                 insights[i].user_id # op[p].user =>
                   (i \in DOMAIN insights' /\ insights'[i] = insights[i])
            /\ \A i \in (Len(insights) + 1)..Len(insights') :
                 /\ insights'[i].user_id = op[p].user
                 /\ insights'[i].gen = op[p].gen
                 /\ insights'[i].agent_type \in AgentTypes]_vars
  /\ [][(\A p \in Procs : op[p].kind \notin {"analyze", "refresh"}) =>
          insights' = insights]_vars
  /\ [](\A i \in DOMAIN insights :
          /\ insights[i].user_id = hist[insights[i].gen].user
          /\ insights[i].user_id \in Users
          /\ insights[i].agent_type \in AgentTypes)

\* a refresh for one user has deactivated and inserted while the insights of
\* an earlier run for another user were stored: these are all active
C28_Witness ==
  \E g \in DOMAIN hist, h \in DOMAIN hist :
    /\ h < g
    /\ hist[g].kind = "refresh" /\ hist[g].ok
    /\ hist[h].ok
    /\ hist[h].user # hist[g].user
    /\ InsertedBy(g) # {}
    /\ InsertedBy(h) # {}
    /\ \A i \in InsertedBy(h) : insights[i].is_active

\* ------------------------------------------------------------------------
\* Routing by the message alone
\* ------------------------------------------------------------------------

\* the contexts handle_user_query can build: the records of either user, any
\* of the summaries, and no insights or the insights of a full run
Contexts ==
  UNION {{[QueryContext(u, Summaries[s]) EXCEPT !.recent_insights = recent] :
            s \in 1..Len(Summaries),
            recent \in {<< >>, StoreRows(<< >>, RowsToInsert(u), 1)}} :
         u \in Users}

\* C29: for a message with at least one keyword the analyzer RouteQuery
\* selects depends on the message only: two users with different records,
\* summaries and insights who send the same such message get the same
\* analyzer.
C29_RouteByMessageOnly ==
  \A p \in Procs :
    (pc[p] = "chat" /\ ~ NoKeyword(op[p].message)) =>
      /\ (ret.kind = "chat" /\ ret.ok /\ ret.message = op[p].message) =>
           ret.agent = op[p].agent
      /\ \A context \in Contexts :
           RouteQuery(op[p].message, context) = op[p].agent

\* a message with a keyword is routed for a user after the same message was
\* answered for the other user, whose records and summary are different and
\* would take a message without keyword to another analyzer
C29_Witness ==
  \E p \in Procs :
    /\ pc[p] = "chat" /\ ~ NoKeyword(op[p].message)
    /\ ret.kind = "chat" /\ ret.ok /\ ret.message = op[p].message
    /\ ret.user # op[p].user
    /\ fin[ret.user] # fin[op[p].user]
    /\ ret.summary # op[p].summary
    /\ HandleGeneralQuery(QueryContext(ret.user, ret.summary))
         # HandleGeneralQuery(QueryContext(op[p].user, op[p].summary))
    /\ ret.agent = op[p].agent

\* ------------------------------------------------------------------------
\* A debt without income
\* ------------------------------------------------------------------------

\* C30: for a user with a positive total debt and total income 0 the debt
\* analyzer reports debt_to_income_ratio 0 and priority_score 4, whatever the
\* size of the debt.
C30_DebtWithoutIncome ==
  (/\ Analyzed("debt_analyzer")
   /\ TotalOf(ret.user, "debt") > 0
   /\ TotalOf(ret.user, "income") = 0) =>
    /\ ret.value[1].metrics.total_debt = TotalOf(ret.user, "debt")
    /\ IsZero(ret.value[1].metrics.debt_to_income_ratio)
    /\ ret.value[1].priority_score = 4

\* the debt analyzer returned score 4 for the largest debt and no income
C30_Witness ==
  /\ Analyzed("debt_analyzer")
  /\ TotalOf(ret.user, "income") = 0
  /\ \A d \in Debts : TotalOf(ret.user, "debt") >= d
  /\ ret.value[1].priority_score = 4

=============================================================================
